---------------------------- MODULE Spec2Model ----------------------------
(***************************************************************************)
(* Cluster client of framework/wazuh/cluster/client.py:                    *)
(*   AbstractClient        - the asyncio protocol of one connection        *)
(*   AbstractClientManager - start(), the connect / run / retry loop       *)
(*                                                                         *)
(* The asyncio event loop is modelled as interleaved steps: a step of the  *)
(* task running start(), a step of one of the tasks of the connection      *)
(* (the hello request of connection_made, the keepalive client_echo and    *)
(* the main task chosen by start), a protocol callback (connection_lost),  *)
(* or an event of the environment (the server answers a request, the       *)
(* connection breaks, the server becomes reachable or not).                *)
(*                                                                         *)
(* The module also holds smaller models, each with a specification of its  *)
(* own: BatcherClient of framework/wazuh/core/batcher/client.py            *)
(* (BatcherSpec), the command dispatch of AbstractClient, process_request  *)
(* and process_response, as pure functions (DispatchSpec), the framing     *)
(* codec (FramingSpec), and the rate limit and blocked IP middlewares of   *)
(* api/api/middlewares.py (RateSpec, BlockSpec).                           *)
(* A specification keeps the variables of the other models at their        *)
(* initial values.                                                         *)
(*                                                                         *)
(* common.Handler (send_request, the pending request table, the base       *)
(* process_response, send_file, send_string, the framing codec) and        *)
(* MuxDemuxQueue are not part of the sources at hand; those parts follow   *)
(* the written specification.                                              *)
(*                                                                         *)
(* asyncio.Task.all_tasks() is taken as the call the source makes: the set  *)
(* of all tasks of the event loop (Python 3.7 and 3.8, where it exists).   *)
(*                                                                         *)
(* Time: the asyncio.sleep(10) of start() is clocked in units (Tick).  A   *)
(* sleep of a task of the connection records its interval and may end at   *)
(* any later step, so every relative timing of the tasks is covered.       *)
(***************************************************************************)
EXTENDS Integers, Sequences, FiniteSets, TLC

\* ------------------------------------------------------------------ bounds
\* The request counter wraps at 2^32 in the program; here it wraps at
\* CounterMod (at least 3: each of the three tasks of a connection has
\* at most one request outstanding).
CounterMod == 3
\* n_msgs of the concurrency test, when it is configured.
NMsgs == 2
\* Failed connection attempts in a row are counted up to MaxFailures.
MaxFailures == 3
\* Ids that uuid.uuid4() hands out in BatcherSpec: 1 .. MaxUids.
MaxUids == 2
\* Longest payload, in tokens, of the frames DispatchSpec goes through.
MaxLen == 2
\* Framing: the configured chunk size and the width of the command field,
\* in bytes.
ChunkSize == 2
TagWidth == 2
\* API: access.max_request_per_minute of the configuration.
max_request_per_minute == 2
\* API: the clock moves at most MaxAdvances times.
MaxAdvances == 3
\* API: requests are followed while the general counter is at most MaxCount.
MaxCount == 32
\* API: CheckBlockedIP is followed through MaxCalls requests.
MaxCalls == 3

\* ------------------------------------------------------- program constants
RetryDelay == 10
KeepaliveInterval == 29
MaxKeepaliveFailures == 3
PerformanceInterval == 3
ConcurrencyInterval == 10
\* api/middlewares.py
MAX_REQUESTS_EVENTS_DEFAULT == 30
RateWindow == 60
GeneralErrorCode == 6001
EventsErrorCode == 6005
\* api/configuration.py: default of access.block_time
BlockTime == 300

MasterPrefix == "Sucessful response from master: "

\* --------------------------------------------------------------- the state
VARIABLES
    config,           \* AbstractClientManager: performance_test, concurrency_test, file, string
    peer,             \* environment: what a connection attempt meets
    mgr_pc,           \* where the task running start() is
    mgr_timer,        \* remaining time of start()'s asyncio.sleep
    must_cancel,      \* start()'s task has been cancelled, CancelledError not yet thrown into it
    slept,            \* time start() has spent in its current asyncio.sleep
    transport,        \* "none" | "open" | "closing" (connection_lost scheduled) | "closed"
    connected,        \* AbstractClient.connected
    on_con_lost,      \* on_con_lost.done()
    set_result_calls, \* number of on_con_lost.set_result calls
    counter,          \* Handler's request counter
    box,              \* pending requests: counter -> the task awaiting the response
    early_sent,       \* an application request was written while connected was False
    main_task,        \* the coroutine start() chose as main task ("none" before)
    pc,               \* per task of the connection: its position
    timer,            \* per task: remaining time of its asyncio.sleep
    n_attemps,        \* per task: client_echo's local n_attemps
    msg_i,            \* per task: concurrency_test_client's loop index i
    result,           \* per task: the value its send_request returned, until used
    hello_reply,      \* what the hello request of this connection got:
                      \* "none" | "ok" | "Error" (a value that starts with Error) | "raised"
    failures,         \* connection attempts that failed in a row (counted up to MaxFailures)
    consec,           \* per task: keepalive failures in a row seen by client_echo
    close_calls,      \* per caller: its transport.close() calls on the current transport
    \* BatcherClient and its MuxDemuxQueue
    assigned,         \* the ids uuid.uuid4() has returned so far
    send_ret,         \* what the last send_event returned (0 before the first)
    mux_queue,        \* the send-side queue: sequence of <<uid, event>>
    responses,        \* the response store: uid -> response, or NoResponse
    get_pc,           \* per get_response coroutine: "idle" | "check" | "sleep" | "returned"
    get_uid,          \* per get_response coroutine: its uid argument (0 when idle)
    get_result,       \* per get_response coroutine: the value it returned
    delivered,        \* per uid: get_response calls that returned a response for it
    \* command dispatch of AbstractClient
    d_kind,           \* the frame at hand: "request" (from the server) | "response"
    d_command,        \* its command
    d_data,           \* its payload
    d_out             \* what process_request / process_response returned for it

mgrVars  == <<mgr_pc, mgr_timer, must_cancel, slept, failures>>
connVars == <<transport, connected, on_con_lost, set_result_calls>>
reqVars  == <<counter, box, early_sent>>
taskVars == <<main_task, pc, timer, n_attemps, msg_i, result, consec>>
envVars  == <<config, peer>>
clusterVars == <<envVars, mgrVars, connVars, reqVars, taskVars, hello_reply, close_calls>>
batchVars == <<assigned, send_ret, mux_queue, responses, get_pc, get_uid, get_result, delivered>>
dispatchVars == <<d_kind, d_command, d_data, d_out>>
VARIABLES
    f_counter,        \* framing: the counter handed to encode
    f_command,        \* framing: the command handed to encode
    f_payload,        \* framing: the payload handed to encode
    f_pc,             \* framing: "idle", "input" (nothing encoded yet), "sent"
    f_wire,           \* framing: frames written and not yet decoded, in order
    f_buffer,         \* framing: Handler's reassembly buffer, chunks by counter
    f_out,            \* framing: the message handed to the dispatch step
    now,              \* API: get_utc_now().timestamp()
    advances,         \* API: how many times the clock moved
    general_request_counter,  \* API middlewares: module globals
    general_current_time,     \* 0 stands for None
    events_request_counter,
    events_current_time,
    passed,           \* API: per counter key, calls that returned 0 in its current window
    r_path,           \* API: path of the last request CheckRateLimitsMiddleware saw
    r_general,        \* API: what its general check returned
    r_seen,           \* API: whether it saw a request at all
    r_out,            \* API: 0 for call_next, else the code of MaxRequestsException
    ip_stats,         \* API middlewares: timestamp per host, 0 for no entry
    ip_block,         \* API middlewares: set of blocked hosts
    b_calls,          \* API: requests CheckBlockedIP has seen
    b_host,           \* API: request.client.host of the last one
    b_login,          \* API: whether it was a GET/POST of a login endpoint
    b_removed,        \* API: whether check_blocked_ip removed the host from ip_block
    b_out             \* API: "none", "passed", "BlockedIPException"

frameVars == <<f_counter, f_command, f_payload, f_pc, f_wire, f_buffer, f_out>>
clockVars == <<now, advances>>
rateVars == <<general_request_counter, general_current_time, events_request_counter,
              events_current_time, passed, r_path, r_general, r_seen, r_out>>
blockVars == <<ip_stats, ip_block, b_calls, b_host, b_login, b_removed, b_out>>
apiVars == <<clockVars, rateVars, blockVars>>
vars == <<clusterVars, batchVars, dispatchVars, frameVars, apiVars, frameVars, apiVars>>

Tasks == {"hello", "keepalive", "main"}
GatherTasks == {"keepalive", "main"}
Callers == Tasks \cup {"start"}
Counters == 0 .. (CounterMod - 1)
Free == "free"

\* start() has not ended.
LiveMgr == {"connect", "sleep", "select", "gather"}

\* A task that is neither finished nor not yet created.
LivePc == {"run", "wait", "ready", "throw", "sleep"}

\* Payloads are sequences of tokens; b'Error...' is a payload whose first
\* token is "Error".
Payloads == { <<"data">>, <<"Error", "data">> }
ResponseCommands == {"ok", "ok-m", "err"}
NoResult == << >>

Configs ==
    [performance_test : {0, 1}, concurrency_test : {0, NMsgs},
     file : {"", "file"}, string : {0, 1}]

PeerStates == {"up", "refusing", "unreachable"}

\* bytes.startswith(b'Error')
StartsWithError(r) == Len(r) > 0 /\ r[1] = "Error"

\* ------------------------------------------------ Handler (from the spec)
\* A response whose command is an error tag makes send_request raise.
IsErrorTag(command) == command = "err"

\* Handler.process_response: the payload, for a command that is no error tag.
BaseProcessResponse(command, payload) == payload

\* The next counter, skipping the counters of outstanding requests.
NextCounter(c, b) ==
    LET k == CHOOSE k \in 1 .. CounterMod :
                /\ b[(c + k) % CounterMod] = Free
                /\ \A j \in 1 .. (k - 1) : b[(c + j) % CounterMod] # Free
    IN (c + k) % CounterMod

\* send_request up to its await: allocate the counter, register the pending
\* request, write the frame.  application is FALSE for the hello request.
SendRequest(t, application) ==
    /\ counter' = NextCounter(counter, box)
    /\ box' = [box EXCEPT ![NextCounter(counter, box)] = t]
    /\ early_sent' = (early_sent \/ (application /\ ~connected))

\* ------------------------------------------------------- AbstractClient
\* Mutant of ProcessResponse: the payload of ok-m is returned as it came.
ProcessResponse_PassThrough(command, payload) ==
    IF command = "ok-m"
    THEN payload
    ELSE BaseProcessResponse(command, payload)

\* AbstractClient.process_response
ProcessResponse(command, payload) ==
    IF command = "ok-m"
    THEN <<MasterPrefix>> \o payload
    ELSE BaseProcessResponse(command, payload)

\* transport.close(): the first call on an open transport schedules
\* connection_lost(None); later calls do nothing.
TransportClose(caller) ==
    /\ transport' = IF transport = "open" THEN "closing" ELSE transport
    /\ close_calls' = [close_calls EXCEPT ![caller] = @ + 1]

\* ------------------------------------------------ BatcherClient: state
UIDs == 1 .. MaxUids
Events == {"event1", "event2"}
Getters == {"g1", "g2"}
\* Python's None, where a response is expected.
NoResponse == [response |-> "None"]
\* The response the consumer of the queue stores for an event.
ResponseTo(event) == [response |-> event]
Responses == {ResponseTo(e) : e \in Events}

\* BatcherClient.__init__ with a new, empty MuxDemuxQueue; no call made yet.
BatcherInit ==
    /\ assigned = {}
    /\ send_ret = 0
    /\ mux_queue = << >>
    /\ responses = [u \in UIDs |-> NoResponse]
    /\ get_pc = [g \in Getters |-> "idle"]
    /\ get_uid = [g \in Getters |-> 0]
    /\ get_result = [g \in Getters |-> NoResponse]
    /\ delivered = [u \in UIDs |-> 0]

\* ------------------------------------------------ command dispatch: state
Tokens == {"Error", "a", "b"}
DispatchPayloads == UNION {[1 .. n -> Tokens] : n \in 0 .. MaxLen}
RequestCommands == {"echo-m", "echo", "echo-c", "hello"}
NoOutput == [by |-> "none"]
\* send_request raises instead of returning a value.
Raised == [by |-> "raised"]

\* No frame has been dispatched.
DispatchIdle ==
    /\ d_kind = "request"
    /\ d_command = "echo-m"
    /\ d_data = << >>
    /\ d_out = NoOutput

\* --------------------------------------------------------- framing: state
\* Bytes of a payload and of a command tag; Pad fills the command field.
Bytes == {"a", "b"}
TagBytes == {"e", "c"}
Pad == " "
\* Payloads of up to three chunks, the last one partial.
MaxPayload == 2 * ChunkSize + 1
FramePayloads == UNION {[1 .. n -> Bytes] : n \in 0 .. MaxPayload}
\* Commands, among them those one byte longer than the command field.
FrameCommands == UNION {[1 .. n -> TagBytes] : n \in 1 .. TagWidth + 1}
NoMessage == [counter |-> -1, command |-> << >>, payload |-> << >>]
EmptyBuffer == [c \in Counters |-> << >>]

\* No message is being framed.
FramingIdle ==
    /\ f_counter = 0
    /\ f_command = <<"e">>
    /\ f_payload = << >>
    /\ f_pc = "idle"
    /\ f_wire = << >>
    /\ f_buffer = EmptyBuffer
    /\ f_out = NoMessage

\* ------------------------------------------------------------- API: state
Hosts == {"10.0.0.1", "10.0.0.2"}
Paths == {"/events", "/agents"}
CounterKeys == {"general_request_counter", "events_request_counter"}

\* api/middlewares.py as imported: the module globals of lines 47-52, and
\* no request seen.
ApiInit ==
    /\ now = 1
    /\ advances = 0
    /\ general_request_counter = 0
    /\ general_current_time = 0
    /\ events_request_counter = 0
    /\ events_current_time = 0
    /\ passed = [k \in CounterKeys |-> 0]
    /\ r_path = "/agents"
    /\ r_general = 0
    /\ r_seen = FALSE
    /\ r_out = 0
    /\ ip_stats = [h \in Hosts |-> 0]
    /\ ip_block = {}
    /\ b_calls = 0
    /\ b_host = "10.0.0.1"
    /\ b_login = FALSE
    /\ b_removed = FALSE
    /\ b_out = "none"

\* ------------------------------------------------------------------ Init
\* start() is called on a new AbstractClientManager.
ClusterInit ==
    /\ config \in Configs
    /\ peer \in PeerStates
    /\ mgr_pc = "connect"
    /\ mgr_timer = 0
    /\ must_cancel = FALSE
    /\ slept = 0
    /\ transport = "none"
    /\ connected = FALSE
    /\ on_con_lost = FALSE
    /\ set_result_calls = 0
    /\ counter = 0
    /\ box = [c \in Counters |-> Free]
    /\ early_sent = FALSE
    /\ main_task = "none"
    /\ pc = [t \in Tasks |-> "none"]
    /\ timer = [t \in Tasks |-> 0]
    /\ n_attemps = [t \in Tasks |-> 0]
    /\ msg_i = [t \in Tasks |-> 0]
    /\ result = [t \in Tasks |-> NoResult]
    /\ consec = [t \in Tasks |-> 0]
    /\ hello_reply = "none"
    /\ failures = 0
    /\ close_calls = [c \in Callers |-> 0]

Init == ClusterInit /\ BatcherInit /\ DispatchIdle /\ FramingIdle /\ ApiInit

\* ------------------------------------------- AbstractClientManager.start
\* Mutant of ConnectionRefused: the delay grows with every failed attempt.
ConnectionRefused_Backoff ==
    /\ mgr_pc = "connect"
    /\ peer = "refusing"
    /\ failures' = IF failures < MaxFailures THEN failures + 1 ELSE failures
    /\ mgr_pc' = "sleep"
    /\ mgr_timer' = RetryDelay * (failures + 1)
    /\ slept' = 0
    /\ UNCHANGED <<batchVars, dispatchVars, frameVars, apiVars, must_cancel, envVars, connVars, reqVars, taskVars, close_calls, hello_reply>>

\* except ConnectionRefusedError: sleep(10), continue
ConnectionRefused ==
    /\ mgr_pc = "connect"
    /\ peer = "refusing"
    /\ failures' = IF failures < MaxFailures THEN failures + 1 ELSE failures
    /\ mgr_pc' = "sleep"
    /\ mgr_timer' = RetryDelay
    /\ slept' = 0
    /\ UNCHANGED <<batchVars, dispatchVars, frameVars, apiVars, must_cancel, envVars, connVars, reqVars, taskVars, close_calls, hello_reply>>

\* except OSError: sleep(10), continue
ConnectOSError ==
    /\ mgr_pc = "connect"
    /\ peer = "unreachable"
    /\ failures' = IF failures < MaxFailures THEN failures + 1 ELSE failures
    /\ mgr_pc' = "sleep"
    /\ mgr_timer' = RetryDelay
    /\ slept' = 0
    /\ UNCHANGED <<batchVars, dispatchVars, frameVars, apiVars, must_cancel, envVars, connVars, reqVars, taskVars, close_calls, hello_reply>>

\* create_connection succeeds: AbstractClient.__init__ (connected False, the
\* on_con_lost of start) and connection_made, whose hello request is written.
ConnectionMade ==
    /\ mgr_pc = "connect"
    /\ peer = "up"
    /\ mgr_pc' = "select"
    /\ failures' = 0
    /\ transport' = "open"
    /\ connected' = FALSE
    /\ counter' = NextCounter(0, [c \in Counters |-> Free])
    /\ box' = [c \in Counters |->
                 IF c = NextCounter(0, [d \in Counters |-> Free]) THEN "hello" ELSE Free]
    /\ pc' = [t \in Tasks |-> IF t = "hello" THEN "wait" ELSE "none"]
    /\ timer' = [t \in Tasks |-> 0]
    /\ n_attemps' = [t \in Tasks |-> 0]
    /\ msg_i' = [t \in Tasks |-> 0]
    /\ result' = [t \in Tasks |-> NoResult]
    /\ consec' = [t \in Tasks |-> 0]
    /\ main_task' = "none"
    /\ hello_reply' = "none"
    /\ close_calls' = [c \in Callers |-> 0]
    /\ UNCHANGED <<batchVars, dispatchVars, frameVars, apiVars, mgr_timer, must_cancel, slept, on_con_lost,
                   set_result_calls, early_sent, envVars>>

\* await loop.create_connection(...) and its two except clauses
CreateConnection ==
    \/ ConnectionRefused
    \/ ConnectOSError
    \/ ConnectionMade

\* asyncio.sleep(10) of a failed attempt is over: continue
RetryWake ==
    /\ mgr_pc = "sleep"
    /\ mgr_timer = 0
    /\ mgr_pc' = "connect"
    /\ slept' = 0
    /\ UNCHANGED <<batchVars, dispatchVars, frameVars, apiVars, mgr_timer, must_cancel, failures, envVars, connVars, reqVars,
                   taskVars, close_calls, hello_reply>>

\* Mutant of SelectTask: the file transfer is looked at first.
SelectTask_FileFirst(cfg) ==
    IF cfg.file # "" THEN "send_file_task"
    ELSE IF cfg.performance_test # 0 THEN "performance_test_client"
    ELSE IF cfg.concurrency_test # 0 THEN "concurrency_test_client"
    ELSE IF cfg.string # 0 THEN "send_string_task"
    ELSE "client_echo"

\* The if / elif chain that picks the main task.
SelectTask(cfg) ==
    IF cfg.performance_test # 0 THEN "performance_test_client"
    ELSE IF cfg.concurrency_test # 0 THEN "concurrency_test_client"
    ELSE IF cfg.file # "" THEN "send_file_task"
    ELSE IF cfg.string # 0 THEN "send_string_task"
    ELSE "client_echo"

\* asyncio.gather(on_con_lost, protocol.client_echo(), task(*task_args)):
\* the keepalive task and the main task are created.
Gather ==
    /\ mgr_pc = "select"
    /\ ~must_cancel
    /\ mgr_pc' = "gather"
    /\ main_task' = SelectTask(config)
    /\ pc' = [pc EXCEPT !["keepalive"] = "run", !["main"] = "run"]
    /\ UNCHANGED <<batchVars, dispatchVars, frameVars, apiVars, mgr_timer, must_cancel, slept, failures, envVars, connVars, reqVars,
                   timer, n_attemps, msg_i, result, consec, close_calls, hello_reply>>

\* Mutant of GatherRaises: start() goes on as soon as one task has completed,
\* closes the transport and, when the task returned, sleeps and reconnects.
GatherFirstCompleted ==
    /\ mgr_pc = "gather"
    /\ ~must_cancel
    /\ \E t \in GatherTasks : pc[t] \in {"failed", "done"}
    /\ IF \E t \in GatherTasks : pc[t] = "failed"
       THEN mgr_pc' = "failed" /\ UNCHANGED <<mgr_timer, slept>>
       ELSE mgr_pc' = "sleep" /\ mgr_timer' = RetryDelay /\ slept' = 0
    /\ TransportClose("start")
    /\ UNCHANGED <<batchVars, dispatchVars, frameVars, apiVars, must_cancel, failures, envVars, connected, on_con_lost,
                   set_result_calls, reqVars, taskVars, hello_reply>>

\* Mutant of GatherRaises: the exception leaves start() without the finally.
GatherRaises_NoClose ==
    /\ mgr_pc = "gather"
    /\ ~must_cancel
    /\ \E t \in GatherTasks : pc[t] = "failed"
    /\ mgr_pc' = "failed"
    /\ UNCHANGED <<batchVars, dispatchVars, frameVars, apiVars, mgr_timer, must_cancel, slept, failures, envVars,
                   connVars, reqVars, taskVars, hello_reply, close_calls>>

\* gather (return_exceptions False) hands the first exception of a child to
\* start(): finally: transport.close(), and the exception leaves start().
GatherRaises ==
    /\ mgr_pc = "gather"
    /\ ~must_cancel
    /\ \E t \in GatherTasks : pc[t] = "failed"
    /\ mgr_pc' = "failed"
    /\ TransportClose("start")
    /\ UNCHANGED <<batchVars, dispatchVars, frameVars, apiVars, mgr_timer, must_cancel, slept, failures, envVars, connected, on_con_lost,
                   set_result_calls, reqVars, taskVars, hello_reply>>

\* CancelledError is thrown into start(): inside the try its finally calls
\* transport.close(); CancelledError is caught nowhere and ends start().
StartCancelled ==
    /\ must_cancel
    /\ mgr_pc \in LiveMgr
    /\ mgr_pc' = "cancelled"
    /\ must_cancel' = FALSE
    /\ IF mgr_pc = "gather"
       THEN TransportClose("start")
       ELSE UNCHANGED <<transport, close_calls>>
    /\ UNCHANGED <<batchVars, dispatchVars, frameVars, apiVars, mgr_timer, slept, failures, envVars, connected, on_con_lost,
                   set_result_calls, reqVars, taskVars, hello_reply>>

\* What would let gather return normally (lines 210-211): on_con_lost done
\* and both tasks returned, start() not cancelled.
GatherCompletes ==
    /\ mgr_pc = "gather"
    /\ ~must_cancel
    /\ on_con_lost
    /\ \A t \in GatherTasks : pc[t] = "done"

\* ------------------------------------------------- tasks of a connection
\* asyncio.sleep(d) inside task t
Sleep(t, d) ==
    /\ pc' = [pc EXCEPT ![t] = "sleep"]
    /\ timer' = [timer EXCEPT ![t] = d]

\* Mutant of ConnectionResult: connected is set whatever the response says.
ConnectionResult_AlwaysConnected ==
    /\ pc["hello"] \in {"ready", "throw"}
    /\ IF pc["hello"] = "throw"
       THEN /\ pc' = [pc EXCEPT !["hello"] = "failed"]
            /\ UNCHANGED <<connected, transport, close_calls>>
       ELSE /\ pc' = [pc EXCEPT !["hello"] = "done"]
            /\ connected' = TRUE
            /\ IF StartsWithError(result["hello"])
               THEN TransportClose("hello")
               ELSE UNCHANGED <<transport, close_calls>>
    /\ result' = [result EXCEPT !["hello"] = NoResult]
    /\ UNCHANGED <<batchVars, dispatchVars, frameVars, apiVars, envVars, mgrVars, on_con_lost, set_result_calls, reqVars,
                   main_task, timer, n_attemps, msg_i, consec, hello_reply>>

\* connection_result, the done callback of the hello request.  With a result:
\* close the transport if it starts with Error, else connected = True.  When
\* the request raised, future_result.result() raises inside the callback and
\* nothing else happens.
ConnectionResult ==
    /\ pc["hello"] \in {"ready", "throw"}
    /\ IF pc["hello"] = "throw"
       THEN /\ pc' = [pc EXCEPT !["hello"] = "failed"]
            /\ UNCHANGED <<connected, transport, close_calls>>
       ELSE /\ pc' = [pc EXCEPT !["hello"] = "done"]
            /\ IF StartsWithError(result["hello"])
               THEN /\ TransportClose("hello")
                    /\ UNCHANGED connected
               ELSE /\ connected' = TRUE
                    /\ UNCHANGED <<transport, close_calls>>
    /\ result' = [result EXCEPT !["hello"] = NoResult]
    /\ UNCHANGED <<batchVars, dispatchVars, frameVars, apiVars, envVars, mgrVars, on_con_lost, set_result_calls, reqVars,
                   main_task, timer, n_attemps, msg_i, consec, hello_reply>>

IsEcho(t) == t = "keepalive" \/ (t = "main" /\ main_task = "client_echo")

\* client_echo from the head of its while loop to the next await.
ClientEchoLoop(t) ==
    /\ IsEcho(t)
    /\ pc[t] = "run"
    /\ IF on_con_lost
       THEN /\ pc' = [pc EXCEPT ![t] = "done"]
            /\ UNCHANGED <<timer, reqVars>>
       ELSE IF connected
            THEN /\ SendRequest(t, TRUE)
                 /\ pc' = [pc EXCEPT ![t] = "wait"]
                 /\ UNCHANGED timer
            ELSE /\ Sleep(t, KeepaliveInterval)
                 /\ UNCHANGED reqVars
    /\ UNCHANGED <<batchVars, dispatchVars, frameVars, apiVars, envVars, mgrVars, connVars, main_task, n_attemps, msg_i,
                   result, consec, close_calls, hello_reply>>

\* Mutant of ClientEchoResume: the transport is closed after more than
\* MaxKeepaliveFailures failures.
ClientEchoResume_OffByOne(t) ==
    /\ IsEcho(t)
    /\ pc[t] = "ready"
    /\ IF StartsWithError(result[t])
       THEN /\ n_attemps' = [n_attemps EXCEPT ![t] = @ + 1]
            /\ consec' = [consec EXCEPT ![t] = @ + 1]
            /\ IF n_attemps[t] + 1 > MaxKeepaliveFailures
               THEN TransportClose(t)
               ELSE UNCHANGED <<transport, close_calls>>
       ELSE /\ consec' = [consec EXCEPT ![t] = 0]
            /\ UNCHANGED <<n_attemps, transport, close_calls>>
    /\ Sleep(t, KeepaliveInterval)
    /\ result' = [result EXCEPT ![t] = NoResult]
    /\ UNCHANGED <<batchVars, dispatchVars, frameVars, apiVars, envVars, mgrVars, connected, on_con_lost, set_result_calls,
                   reqVars, main_task, msg_i, hello_reply>>

\* Mutant of ClientEchoResume: the transport is closed at every failure.
ClientEchoResume_CloseEachFailure(t) ==
    /\ IsEcho(t)
    /\ pc[t] = "ready"
    /\ IF StartsWithError(result[t])
       THEN /\ n_attemps' = [n_attemps EXCEPT ![t] = @ + 1]
            /\ consec' = [consec EXCEPT ![t] = @ + 1]
            /\ TransportClose(t)
       ELSE /\ consec' = [consec EXCEPT ![t] = 0]
            /\ UNCHANGED <<n_attemps, transport, close_calls>>
    /\ Sleep(t, KeepaliveInterval)
    /\ result' = [result EXCEPT ![t] = NoResult]
    /\ UNCHANGED <<batchVars, dispatchVars, frameVars, apiVars, envVars, mgrVars, connected, on_con_lost, set_result_calls,
                   reqVars, main_task, msg_i, hello_reply>>

\* client_echo after send_request returned: count the failure, close the
\* transport at the third one, then sleep(29).
ClientEchoResume(t) ==
    /\ IsEcho(t)
    /\ pc[t] = "ready"
    /\ IF StartsWithError(result[t])
       THEN /\ n_attemps' = [n_attemps EXCEPT ![t] = @ + 1]
            /\ consec' = [consec EXCEPT ![t] = @ + 1]
            /\ IF n_attemps[t] + 1 >= MaxKeepaliveFailures
               THEN TransportClose(t)
               ELSE UNCHANGED <<transport, close_calls>>
       ELSE /\ consec' = [consec EXCEPT ![t] = 0]
            /\ UNCHANGED <<n_attemps, transport, close_calls>>
    /\ Sleep(t, KeepaliveInterval)
    /\ result' = [result EXCEPT ![t] = NoResult]
    /\ UNCHANGED <<batchVars, dispatchVars, frameVars, apiVars, envVars, mgrVars, connected, on_con_lost, set_result_calls,
                   reqVars, main_task, msg_i, hello_reply>>

\* performance_test_client from the head of its while loop to the await.
PerformanceLoop ==
    /\ main_task = "performance_test_client"
    /\ pc["main"] = "run"
    /\ IF on_con_lost
       THEN /\ pc' = [pc EXCEPT !["main"] = "done"]
            /\ UNCHANGED reqVars
       ELSE /\ SendRequest("main", TRUE)
            /\ pc' = [pc EXCEPT !["main"] = "wait"]
    /\ UNCHANGED <<batchVars, dispatchVars, frameVars, apiVars, envVars, mgrVars, connVars, main_task, timer, n_attemps,
                   msg_i, result, consec, close_calls, hello_reply>>

\* performance_test_client after send_request returned: log, sleep(3).
PerformanceResume ==
    /\ main_task = "performance_test_client"
    /\ pc["main"] = "ready"
    /\ Sleep("main", PerformanceInterval)
    /\ result' = [result EXCEPT !["main"] = NoResult]
    /\ UNCHANGED <<batchVars, dispatchVars, frameVars, apiVars, envVars, mgrVars, connVars, reqVars, main_task, n_attemps,
                   msg_i, consec, close_calls, hello_reply>>

\* concurrency_test_client from the head of its while loop: the for loop
\* starts at i = 0 (with n_msgs = 0 it would go straight to sleep(10)).
ConcurrencyLoop ==
    /\ main_task = "concurrency_test_client"
    /\ pc["main"] = "run"
    /\ IF on_con_lost
       THEN /\ pc' = [pc EXCEPT !["main"] = "done"]
            /\ UNCHANGED <<timer, msg_i, reqVars>>
       ELSE IF config.concurrency_test > 0
            THEN /\ SendRequest("main", TRUE)
                 /\ msg_i' = [msg_i EXCEPT !["main"] = 0]
                 /\ pc' = [pc EXCEPT !["main"] = "wait"]
                 /\ UNCHANGED timer
            ELSE /\ Sleep("main", ConcurrencyInterval)
                 /\ UNCHANGED <<msg_i, reqVars>>
    /\ UNCHANGED <<batchVars, dispatchVars, frameVars, apiVars, envVars, mgrVars, connVars, main_task, n_attemps, result,
                   consec, close_calls, hello_reply>>

\* concurrency_test_client after a send_request returned: the next message
\* of the for loop, or sleep(10) after the last.
ConcurrencyResume ==
    /\ main_task = "concurrency_test_client"
    /\ pc["main"] = "ready"
    /\ IF msg_i["main"] + 1 < config.concurrency_test
       THEN /\ SendRequest("main", TRUE)
            /\ msg_i' = [msg_i EXCEPT !["main"] = @ + 1]
            /\ pc' = [pc EXCEPT !["main"] = "wait"]
            /\ UNCHANGED timer
       ELSE /\ Sleep("main", ConcurrencyInterval)
            /\ UNCHANGED <<msg_i, reqVars>>
    /\ result' = [result EXCEPT !["main"] = NoResult]
    /\ UNCHANGED <<batchVars, dispatchVars, frameVars, apiVars, envVars, mgrVars, connVars, main_task, n_attemps,
                   consec, close_calls, hello_reply>>

\* send_file_task / send_string_task: one transfer (send_file, send_string
\* of Handler, a request under one counter) ...
TransferStart ==
    /\ main_task \in {"send_file_task", "send_string_task"}
    /\ pc["main"] = "run"
    /\ SendRequest("main", TRUE)
    /\ pc' = [pc EXCEPT !["main"] = "wait"]
    /\ UNCHANGED <<batchVars, dispatchVars, frameVars, apiVars, envVars, mgrVars, connVars, main_task, timer, n_attemps,
                   msg_i, result, consec, close_calls, hello_reply>>

\* ... and, once it returned, the task logs and returns.
TransferDone ==
    /\ main_task \in {"send_file_task", "send_string_task"}
    /\ pc["main"] = "ready"
    /\ pc' = [pc EXCEPT !["main"] = "done"]
    /\ result' = [result EXCEPT !["main"] = NoResult]
    /\ UNCHANGED <<batchVars, dispatchVars, frameVars, apiVars, envVars, mgrVars, connVars, reqVars, main_task, timer,
                   n_attemps, msg_i, consec, close_calls, hello_reply>>

\* send_request raises inside the keepalive or the main task: no coroutine
\* of AbstractClient catches anything, the task ends with the exception.
TaskRaises(t) ==
    /\ t \in GatherTasks
    /\ pc[t] = "throw"
    /\ pc' = [pc EXCEPT ![t] = "failed"]
    /\ UNCHANGED <<batchVars, dispatchVars, frameVars, apiVars, envVars, mgrVars, connVars, reqVars, main_task, timer,
                   n_attemps, msg_i, result, consec, close_calls, hello_reply>>

\* asyncio.sleep of task t is over.  timer[t] is the interval the sleep was
\* armed with; when it ends relative to the other tasks is left open.
TimerFires(t) ==
    /\ pc[t] = "sleep"
    /\ pc' = [pc EXCEPT ![t] = "run"]
    /\ timer' = [timer EXCEPT ![t] = 0]
    /\ UNCHANGED <<batchVars, dispatchVars, frameVars, apiVars, envVars, mgrVars, connVars, reqVars, main_task,
                   n_attemps, msg_i, result, consec, close_calls, hello_reply>>

\* Mutant of ConnectionLost: the main task of the connection is not cancelled.
ConnectionLost_MainTaskSurvives ==
    /\ transport = "closing"
    /\ transport' = "closed"
    /\ on_con_lost' = TRUE
    /\ set_result_calls' = IF on_con_lost THEN set_result_calls
                                         ELSE set_result_calls + 1
    /\ pc' = [t \in Tasks |->
                IF pc[t] \in LivePc /\ t # "main" THEN "cancelled" ELSE pc[t]]
    /\ must_cancel' = (mgr_pc \in LiveMgr)
    /\ timer' = [t \in Tasks |-> 0]
    /\ n_attemps' = [t \in Tasks |-> 0]
    /\ msg_i' = [t \in Tasks |-> 0]
    /\ result' = [t \in Tasks |-> NoResult]
    /\ consec' = [t \in Tasks |-> 0]
    /\ UNCHANGED <<batchVars, dispatchVars, frameVars, apiVars, envVars, mgr_pc, mgr_timer, slept, failures, connected,
                   counter, box, early_sent, main_task, close_calls, hello_reply>>

\* AbstractClient.connection_lost: resolve on_con_lost unless done, then
\* cancel every task of the event loop, the one running start() included.
ConnectionLost ==
    /\ transport = "closing"
    /\ transport' = "closed"
    /\ on_con_lost' = TRUE
    /\ set_result_calls' = IF on_con_lost THEN set_result_calls
                                         ELSE set_result_calls + 1
    /\ pc' = [t \in Tasks |-> IF pc[t] \in LivePc THEN "cancelled" ELSE pc[t]]
    /\ must_cancel' = (mgr_pc \in LiveMgr)
    /\ timer' = [t \in Tasks |-> 0]
    /\ n_attemps' = [t \in Tasks |-> 0]
    /\ msg_i' = [t \in Tasks |-> 0]
    /\ result' = [t \in Tasks |-> NoResult]
    /\ consec' = [t \in Tasks |-> 0]
    /\ UNCHANGED <<batchVars, dispatchVars, frameVars, apiVars, envVars, mgr_pc, mgr_timer, slept, failures, connected,
                   counter, box, early_sent, main_task, close_calls, hello_reply>>

\* --------------------------------------------------------- environment
\* Mutant of DeliverResponse: the response wakes the caller of the lowest
\* pending counter, whatever counter it carries.
DeliverResponse_ByArrival(c, command, payload) ==
    LET first == CHOOSE d \in Counters :
                     box[d] # Free /\ \A e \in Counters : box[e] # Free => d <= e
    IN  /\ transport = "open"
        /\ box[c] # Free
        /\ box' = [box EXCEPT ![c] = Free]
        /\ IF IsErrorTag(command)
           THEN /\ pc' = [pc EXCEPT ![box[first]] = "throw"]
                /\ UNCHANGED result
           ELSE /\ pc' = [pc EXCEPT ![box[first]] = "ready"]
                /\ result' = [result EXCEPT ![box[first]] = ProcessResponse(command, payload)]
        /\ hello_reply' = IF box[first] # "hello" THEN hello_reply
                          ELSE IF IsErrorTag(command) THEN "raised"
                          ELSE IF StartsWithError(ProcessResponse(command, payload))
                               THEN "Error" ELSE "ok"
        /\ UNCHANGED <<batchVars, dispatchVars, frameVars, apiVars, envVars, mgrVars, connVars, counter, early_sent,
                       main_task, timer, n_attemps, msg_i, consec, close_calls>>

\* A response frame for pending request c arrives: the request leaves the
\* table and its caller is woken with process_response's value, or with an
\* exception for an error tag.
DeliverResponse(c, command, payload) ==
    /\ transport = "open"
    /\ box[c] # Free
    /\ box' = [box EXCEPT ![c] = Free]
    /\ IF IsErrorTag(command)
       THEN /\ pc' = [pc EXCEPT ![box[c]] = "throw"]
            /\ UNCHANGED result
       ELSE /\ pc' = [pc EXCEPT ![box[c]] = "ready"]
            /\ result' = [result EXCEPT ![box[c]] = ProcessResponse(command, payload)]
    /\ hello_reply' = IF box[c] # "hello" THEN hello_reply
                      ELSE IF IsErrorTag(command) THEN "raised"
                      ELSE IF StartsWithError(ProcessResponse(command, payload))
                           THEN "Error" ELSE "ok"
    /\ UNCHANGED <<batchVars, dispatchVars, frameVars, apiVars, envVars, mgrVars, connVars, counter, early_sent, main_task,
                   timer, n_attemps, msg_i, consec, close_calls>>

\* The connection breaks: EOF from the server or a transport error; the
\* transport schedules connection_lost(exc), whose exc is only logged.
TransportLost ==
    /\ transport = "open"
    /\ transport' = "closing"
    /\ UNCHANGED <<batchVars, dispatchVars, frameVars, apiVars, envVars, mgrVars, connected, on_con_lost, set_result_calls,
                   reqVars, taskVars, close_calls, hello_reply>>

\* The server becomes reachable, refuses connections or becomes unreachable
\* (observed by start() only when it connects).
PeerChanges(p) ==
    /\ mgr_pc \in {"connect", "sleep"}
    /\ p # peer
    /\ peer' = p
    /\ UNCHANGED <<batchVars, dispatchVars, frameVars, apiVars, config, mgrVars, connVars, reqVars, taskVars, close_calls, hello_reply>>

\* ------------------------------------------------------------------ time
\* One unit of time passes while start() sleeps.  (The sleeps of the tasks
\* of a connection are not clocked: see TimerFires.)
Tick ==
    /\ mgr_pc = "sleep"
    /\ mgr_timer > 0
    /\ mgr_timer' = mgr_timer - 1
    /\ slept' = slept + 1
    /\ UNCHANGED <<batchVars, dispatchVars, frameVars, apiVars, envVars, mgr_pc, must_cancel, failures, connVars, reqVars, taskVars,
                   close_calls, hello_reply>>

\* ------------------------------------------------------------------ Next
ManagerStep == CreateConnection \/ RetryWake \/ Gather \/ GatherRaises \/ StartCancelled

\* The steps of the keepalive task ...
KeepaliveStep ==
    \/ ClientEchoLoop("keepalive")
    \/ ClientEchoResume("keepalive")
    \/ TaskRaises("keepalive")
    \/ TimerFires("keepalive")

\* ... and of the main task.
MainStep ==
    \/ ClientEchoLoop("main")
    \/ ClientEchoResume("main")
    \/ PerformanceLoop
    \/ PerformanceResume
    \/ ConcurrencyLoop
    \/ ConcurrencyResume
    \/ TransferStart
    \/ TransferDone
    \/ TaskRaises("main")
    \/ TimerFires("main")

TaskStep == ConnectionResult \/ KeepaliveStep \/ MainStep

ServerAnswers ==
    \E c \in Counters, command \in ResponseCommands, payload \in Payloads :
        DeliverResponse(c, command, payload)

EnvStep ==
    \/ ServerAnswers
    \/ TransportLost
    \/ \E p \in PeerStates : PeerChanges(p)

Next == ManagerStep \/ TaskStep \/ ConnectionLost \/ EnvStep \/ Tick

Spec == Init /\ [][Next]_vars

\* The event loop runs what is ready and fires due timers; a server that is
\* connected answers the requests it gets.  The connection may break or not.
Fairness ==
    /\ WF_vars(ServerAnswers)
    /\ WF_vars(ManagerStep)
    /\ WF_vars(ConnectionResult)
    /\ WF_vars(KeepaliveStep)
    /\ WF_vars(MainStep)
    /\ WF_vars(ConnectionLost)
    /\ WF_vars(Tick)

FairSpec == Spec /\ Fairness

TypeOK ==
    /\ config \in Configs
    /\ peer \in PeerStates
    /\ mgr_pc \in {"connect", "sleep", "select", "gather", "cancelled", "failed"}
    /\ transport \in {"none", "open", "closing", "closed"}
    /\ connected \in BOOLEAN
    /\ on_con_lost \in BOOLEAN
    /\ counter \in Counters
    /\ box \in [Counters -> Tasks \cup {Free}]
    /\ pc \in [Tasks -> LivePc \cup {"none", "done", "cancelled", "failed"}]

\* ========================================================= BatcherClient
\* uuid.uuid4(): a random 122-bit value, taken as never repeating: an id
\* that was not handed out before.
Uuid4(u) == u \in UIDs \ assigned

\* MuxDemuxQueue.send_to_mux: the queue with (uid, event) added at its end.
SendToMux(uid, event) == Append(mux_queue, <<uid, event>>)

\* MuxDemuxQueue.is_response_pending: no response for uid is in the store.
IsResponsePending(uid) == responses[uid] = NoResponse

\* MuxDemuxQueue.receive_from_demux: the response of uid (None when there is
\* none), and the store without it.
ReceiveFromDemux(uid) == responses[uid]

StoreWithout(uid) == [responses EXCEPT ![uid] = NoResponse]

\* Mutant of SendEvent: the entry is put on the queue twice.
SendEvent_EnqueueTwice(event) ==
    \E assigned_uid \in UIDs :
        /\ Uuid4(assigned_uid)
        /\ assigned' = assigned \cup {assigned_uid}
        /\ mux_queue' = Append(SendToMux(assigned_uid, event), <<assigned_uid, event>>)
        /\ send_ret' = assigned_uid
        /\ UNCHANGED <<responses, get_pc, get_uid, get_result, delivered,
                       clusterVars, dispatchVars, frameVars, apiVars>>

\* BatcherClient.send_event: uuid4, send_to_mux, return what it returns (the uid).
SendEvent(event) ==
    \E assigned_uid \in UIDs :
        /\ Uuid4(assigned_uid)
        /\ assigned' = assigned \cup {assigned_uid}
        /\ mux_queue' = SendToMux(assigned_uid, event)
        /\ send_ret' = assigned_uid
        /\ UNCHANGED <<responses, get_pc, get_uid, get_result, delivered,
                       clusterVars, dispatchVars, frameVars, apiVars>>

\* The component that drains the queue: it takes the oldest entry and stores
\* the response of its event under its uid.
Populate ==
    /\ mux_queue # << >>
    /\ responses' = [responses EXCEPT ![Head(mux_queue)[1]] = ResponseTo(Head(mux_queue)[2])]
    /\ mux_queue' = Tail(mux_queue)
    /\ UNCHANGED <<assigned, send_ret, get_pc, get_uid, get_result, delivered,
                   clusterVars, dispatchVars, frameVars, apiVars>>

\* A coroutine calls get_response(uid), with any uid.
GetResponseCall(g, uid) ==
    /\ get_pc[g] \in {"idle", "returned"}
    /\ get_pc' = [get_pc EXCEPT ![g] = "check"]
    /\ get_uid' = [get_uid EXCEPT ![g] = uid]
    /\ get_result' = [get_result EXCEPT ![g] = NoResponse]
    /\ UNCHANGED <<assigned, send_ret, mux_queue, responses, delivered,
                   clusterVars, dispatchVars, frameVars, apiVars>>

\* Mutant of GetResponsePoll: the response is returned and left in the store.
GetResponsePoll_Peek(g) ==
    /\ get_pc[g] = "check"
    /\ IF ~IsResponsePending(get_uid[g])
       THEN /\ get_result' = [get_result EXCEPT ![g] = ReceiveFromDemux(get_uid[g])]
            /\ delivered' = [delivered EXCEPT ![get_uid[g]] = IF @ < 2 THEN @ + 1 ELSE @]
            /\ get_pc' = [get_pc EXCEPT ![g] = "returned"]
            /\ UNCHANGED responses
       ELSE /\ get_pc' = [get_pc EXCEPT ![g] = "sleep"]
            /\ UNCHANGED <<responses, get_result, delivered>>
    /\ UNCHANGED <<assigned, send_ret, mux_queue, get_uid, clusterVars, dispatchVars, frameVars, apiVars>>

\* Mutant of GetResponsePoll: get_response does not wait, it returns what
\* receive_from_demux has at the first poll.
GetResponsePoll_NoWait(g) ==
    /\ get_pc[g] = "check"
    /\ get_result' = [get_result EXCEPT ![g] = ReceiveFromDemux(get_uid[g])]
    /\ responses' = StoreWithout(get_uid[g])
    /\ delivered' = [delivered EXCEPT ![get_uid[g]] =
                        IF ~IsResponsePending(get_uid[g]) /\ @ < 2 THEN @ + 1 ELSE @]
    /\ get_pc' = [get_pc EXCEPT ![g] = "returned"]
    /\ UNCHANGED <<assigned, send_ret, mux_queue, get_uid, clusterVars, dispatchVars, frameVars, apiVars>>

\* One turn of the while loop of get_response (no await between the test and
\* receive_from_demux): return the response when it is there, else sleep.
GetResponsePoll(g) ==
    /\ get_pc[g] = "check"
    /\ IF ~IsResponsePending(get_uid[g])
       THEN /\ get_result' = [get_result EXCEPT ![g] = ReceiveFromDemux(get_uid[g])]
            /\ responses' = StoreWithout(get_uid[g])
            /\ delivered' = [delivered EXCEPT ![get_uid[g]] = IF @ < 2 THEN @ + 1 ELSE @]
            /\ get_pc' = [get_pc EXCEPT ![g] = "returned"]
       ELSE /\ get_pc' = [get_pc EXCEPT ![g] = "sleep"]
            /\ UNCHANGED <<responses, get_result, delivered>>
    /\ UNCHANGED <<assigned, send_ret, mux_queue, get_uid, clusterVars, dispatchVars, frameVars, apiVars>>

\* asyncio.sleep(self.frequency_of_wait) is over: the next turn of the loop.
GetResponseWake(g) ==
    /\ get_pc[g] = "sleep"
    /\ get_pc' = [get_pc EXCEPT ![g] = "check"]
    /\ UNCHANGED <<assigned, send_ret, mux_queue, responses, get_uid, get_result,
                   delivered, clusterVars, dispatchVars, frameVars, apiVars>>

\* The steps of one get_response call.
GetResponseStep(g) == GetResponsePoll(g) \/ GetResponseWake(g)

\* No connection of the cluster client is involved.
ClusterIdle ==
    /\ ClusterInit
    /\ config = [performance_test |-> 0, concurrency_test |-> 0, file |-> "", string |-> 0]
    /\ peer = "up"

BatcherNext ==
    \/ \E event \in Events : SendEvent(event)
    \/ Populate
    \/ \E g \in Getters, uid \in UIDs : GetResponseCall(g, uid)
    \/ \E g \in Getters : GetResponsePoll(g)
    \/ \E g \in Getters : GetResponseWake(g)

\* A new BatcherClient; nothing else goes on.
BatcherStart == BatcherInit /\ ClusterIdle /\ DispatchIdle /\ FramingIdle /\ ApiInit

BatcherSpec == BatcherStart /\ [][BatcherNext]_vars

\* The event loop runs every coroutine that is ready and fires due timers;
\* the consumer of the queue keeps draining it.
BatcherFairness ==
    /\ WF_vars(Populate)
    /\ \A g \in Getters : WF_vars(GetResponseStep(g))

BatcherFairSpec == BatcherSpec /\ BatcherFairness

\* ====================================================== command dispatch
\* AbstractClient.echo_client
EchoClient(data) == [by |-> "echo_client", command |-> "ok-c", data |-> data]

\* Handler.process_request: what it answers is not known here; its result
\* stands for the call it got.
BaseProcessRequest(command, data) ==
    [by |-> "Handler.process_request", command |-> command, data |-> data]

\* Mutant of ProcessRequest: the generic echo is answered here as well.
ProcessRequest_AnyEcho(command, data) ==
    IF command \in {"echo-m", "echo"}
    THEN EchoClient(data)
    ELSE BaseProcessRequest(command, data)

\* AbstractClient.process_request
ProcessRequest(command, data) ==
    IF command = "echo-m"
    THEN EchoClient(data)
    ELSE BaseProcessRequest(command, data)

\* Frames of every command and payload.
DispatchInit ==
    /\ d_kind \in {"request", "response"}
    /\ d_command \in RequestCommands \cup ResponseCommands
    /\ d_data \in DispatchPayloads
    /\ d_out = NoOutput

\* A request frame of the server is handed to process_request.
DispatchRequest ==
    /\ d_kind = "request"
    /\ d_out = NoOutput
    /\ d_out' = ProcessRequest(d_command, d_data)
    /\ UNCHANGED <<d_kind, d_command, d_data, clusterVars, batchVars, frameVars, apiVars>>

\* A response frame is handed to process_response; its value is what the
\* send_request caller gets, unless the command is an error tag.
DispatchResponse ==
    /\ d_kind = "response"
    /\ d_out = NoOutput
    /\ d_out' = IF IsErrorTag(d_command)
                THEN Raised
                ELSE [by |-> "process_response",
                      value |-> ProcessResponse(d_command, d_data)]
    /\ UNCHANGED <<d_kind, d_command, d_data, clusterVars, batchVars, frameVars, apiVars>>

\* The next frame arrives.
NextFrame(kind, command, data) ==
    /\ d_out # NoOutput
    /\ d_kind' = kind
    /\ d_command' = command
    /\ d_data' = data
    /\ d_out' = NoOutput
    /\ UNCHANGED <<clusterVars, batchVars, frameVars, apiVars>>

DispatchNext ==
    \/ DispatchRequest
    \/ DispatchResponse
    \/ \E kind \in {"request", "response"},
          command \in RequestCommands \cup ResponseCommands,
          data \in DispatchPayloads : NextFrame(kind, command, data)

\* A first frame arrives; nothing else goes on.
DispatchStart == DispatchInit /\ ClusterIdle /\ BatcherInit /\ FramingIdle /\ ApiInit

DispatchSpec == DispatchStart /\ [][DispatchNext]_vars

\* ============================================================== framing
\* The command field of a header: the command cut to the width of the
\* field, or filled up with Pad.
CommandField(command) ==
    [i \in 1 .. TagWidth |-> IF i <= Len(command) THEN command[i] ELSE Pad]

\* The command of a header field: the field without its padding.
StripPad(field) ==
    LET used == {i \in 1 .. Len(field) : field[i] # Pad}
        last == IF used = {} THEN 0 ELSE CHOOSE i \in used : \A j \in used : j <= i
    IN  SubSeq(field, 1, last)

\* Frames a payload is split across: one, or as many as it has chunks.
NChunks(payload) ==
    IF Len(payload) = 0 THEN 1 ELSE (Len(payload) + ChunkSize - 1) \div ChunkSize

\* The k-th chunk of a payload.
Chunk(payload, k) ==
    SubSeq(payload, (k - 1) * ChunkSize + 1,
           IF k * ChunkSize <= Len(payload) THEN k * ChunkSize ELSE Len(payload))

\* encode(counter, command, payload): the frames written, each with the
\* header (counter, command field, chunk index and total) and the
\* length-prefixed chunk.
Encode(c, command, payload) ==
    [k \in 1 .. NChunks(payload) |->
        [counter |-> c,
         command |-> CommandField(command),
         index   |-> k,
         total   |-> NChunks(payload),
         length  |-> Len(Chunk(payload, k)),
         payload |-> Chunk(payload, k)]]

\* decode(buffer), for a buffer that holds a whole frame: the frame's
\* counter, command and payload, and the rest of the buffer.
Decode(buffer) ==
    [counter   |-> Head(buffer).counter,
     command   |-> StripPad(Head(buffer).command),
     index     |-> Head(buffer).index,
     total     |-> Head(buffer).total,
     payload   |-> SubSeq(Head(buffer).payload, 1, Head(buffer).length),
     remaining |-> Tail(buffer)]

\* A caller hands (counter, command, payload) to encode and the frames are
\* written to the stream.
EncodeAndWrite ==
    /\ f_pc = "input"
    /\ f_wire' = Encode(f_counter, f_command, f_payload)
    /\ f_pc' = "sent"
    /\ UNCHANGED <<f_counter, f_command, f_payload, f_buffer, f_out,
                   clusterVars, batchVars, dispatchVars, apiVars>>

\* Mutant of ReceiveFrame: a chunk is put in front of those buffered.
ReceiveFrame_Prepends ==
    /\ f_wire # << >>
    /\ LET frame == Decode(f_wire)
           whole == frame.payload \o f_buffer[frame.counter]
       IN  /\ f_wire' = frame.remaining
           /\ IF frame.index = frame.total
              THEN /\ f_out' = [counter |-> frame.counter, command |-> frame.command,
                                payload |-> whole]
                   /\ f_buffer' = [f_buffer EXCEPT ![frame.counter] = << >>]
              ELSE /\ f_buffer' = [f_buffer EXCEPT ![frame.counter] = whole]
                   /\ UNCHANGED f_out
    /\ UNCHANGED <<f_counter, f_command, f_payload, f_pc,
                   clusterVars, batchVars, dispatchVars, apiVars>>

\* The Handler decodes the next frame of the stream and buffers its chunk
\* under the frame's counter; with the last chunk the whole payload is
\* handed to the dispatch step.
ReceiveFrame ==
    /\ f_wire # << >>
    /\ LET frame == Decode(f_wire)
           whole == f_buffer[frame.counter] \o frame.payload
       IN  /\ f_wire' = frame.remaining
           /\ IF frame.index = frame.total
              THEN /\ f_out' = [counter |-> frame.counter, command |-> frame.command,
                                payload |-> whole]
                   /\ f_buffer' = [f_buffer EXCEPT ![frame.counter] = << >>]
              ELSE /\ f_buffer' = [f_buffer EXCEPT ![frame.counter] = whole]
                   /\ UNCHANGED f_out
    /\ UNCHANGED <<f_counter, f_command, f_payload, f_pc,
                   clusterVars, batchVars, dispatchVars, apiVars>>

\* Messages of every counter, command and payload.
FramingInit ==
    /\ f_counter \in Counters
    /\ f_command \in FrameCommands
    /\ f_payload \in FramePayloads
    /\ f_pc = "input"
    /\ f_wire = << >>
    /\ f_buffer = EmptyBuffer
    /\ f_out = NoMessage

FramingNext ==
    \/ EncodeAndWrite
    \/ ReceiveFrame

\* One message is framed; nothing else goes on.
FramingStart == FramingInit /\ ClusterIdle /\ BatcherInit /\ DispatchIdle /\ ApiInit

FramingSpec == FramingStart /\ [][FramingNext]_vars

\* ======================================================= API middlewares
\* check_rate_limit on a counter and the start of its window: the new
\* values of both, the code returned, and whether a new window started.
CheckRateLimit(request_counter, current_time, max_requests, error_code) ==
    LET started == IF current_time = 0 THEN now ELSE current_time
        inside  == now - RateWindow <= started
        count   == IF inside THEN request_counter + 1 ELSE 0
    IN  [request_counter |-> count,
         current_time    |-> IF inside THEN started ELSE now,
         code            |-> IF count > max_requests THEN error_code ELSE 0,
         reset           |-> ~inside]

\* Calls of a window that returned 0, after one more call.
Passed(before, check) ==
    (IF check.reset THEN 0 ELSE before) + (IF check.code = 0 THEN 1 ELSE 0)

\* CheckRateLimitsMiddleware.dispatch for a request of the given path.
RateLimitsDispatch(path) ==
    LET general == CheckRateLimit(general_request_counter, general_current_time,
                                  max_request_per_minute, GeneralErrorCode)
        events  == CheckRateLimit(events_request_counter, events_current_time,
                                  MAX_REQUESTS_EVENTS_DEFAULT, EventsErrorCode)
        error_code == IF path = "/events" THEN events.code ELSE general.code
    IN  /\ general_request_counter <= MaxCount
        /\ general_request_counter' = general.request_counter
        /\ general_current_time' = general.current_time
        /\ IF path = "/events"
           THEN /\ events_request_counter' = events.request_counter
                /\ events_current_time' = events.current_time
                /\ passed' = [passed EXCEPT
                       !["general_request_counter"] = Passed(@, general),
                       !["events_request_counter"] = Passed(@, events)]
           ELSE /\ UNCHANGED <<events_request_counter, events_current_time>>
                /\ passed' = [passed EXCEPT
                       !["general_request_counter"] = Passed(@, general)]
        /\ r_path' = path
        /\ r_general' = general.code
        /\ r_seen' = TRUE
        /\ r_out' = error_code
        /\ UNCHANGED <<clockVars, blockVars, clusterVars, batchVars, dispatchVars, frameVars>>

\* Time passes between two requests.
ClockAdvance(d) ==
    /\ advances < MaxAdvances
    /\ now' = now + d
    /\ advances' = advances + 1
    /\ UNCHANGED <<rateVars, blockVars, clusterVars, batchVars, dispatchVars, frameVars>>

RateNext ==
    \/ \E path \in Paths : RateLimitsDispatch(path)
    \/ \E d \in {1, RateWindow} : ClockAdvance(d)

\* The API serves requests; nothing else goes on.
ApiStart == ApiInit /\ ClusterIdle /\ BatcherInit /\ DispatchIdle /\ FramingIdle

RateSpec == ApiStart /\ [][RateNext]_vars

\* A login of the host fails.  The code that counts the attempts is not in
\* the sources at hand: the first one is entered in ip_stats with the time,
\* and the one that reaches max_login_attempts puts the host in ip_block.
FailedLogin(host, reaches_max) ==
    /\ ip_stats' = [ip_stats EXCEPT ![host] = IF @ = 0 THEN now ELSE @]
    /\ ip_block' = IF reaches_max THEN ip_block \cup {host} ELSE ip_block
    /\ UNCHANGED <<b_calls, b_host, b_login, b_removed, b_out,
                   clockVars, rateVars, clusterVars, batchVars, dispatchVars, frameVars>>

\* Mutant of CheckBlockedIPDispatch: the block ends after block_time, not at it.
CheckBlockedIPDispatch_After(host, login) ==
    LET expired == ip_stats[host] # 0 /\ now - BlockTime > ip_stats[host]
        blocked == IF login /\ expired THEN ip_block \ {host} ELSE ip_block
    IN  /\ b_calls < MaxCalls
        /\ ip_stats' = IF login /\ expired THEN [ip_stats EXCEPT ![host] = 0] ELSE ip_stats
        /\ ip_block' = blocked
        /\ b_calls' = b_calls + 1
        /\ b_host' = host
        /\ b_login' = login
        /\ b_removed' = (login /\ expired /\ host \in ip_block)
        /\ b_out' = IF login /\ host \in blocked THEN "BlockedIPException" ELSE "passed"
        /\ UNCHANGED <<clockVars, rateVars, clusterVars, batchVars, dispatchVars, frameVars>>

\* CheckBlockedIP.dispatch for a request of the host; login says whether it
\* is a GET or POST of a login endpoint, the requests check_blocked_ip is
\* called for.  In check_blocked_ip a missing ip_stats entry, and a host to
\* remove that is not in ip_block, raise the KeyError that it catches.
CheckBlockedIPDispatch(host, login) ==
    LET expired == ip_stats[host] # 0 /\ now - BlockTime >= ip_stats[host]
        blocked == IF login /\ expired THEN ip_block \ {host} ELSE ip_block
    IN  /\ b_calls < MaxCalls
        /\ ip_stats' = IF login /\ expired THEN [ip_stats EXCEPT ![host] = 0] ELSE ip_stats
        /\ ip_block' = blocked
        /\ b_calls' = b_calls + 1
        /\ b_host' = host
        /\ b_login' = login
        /\ b_removed' = (login /\ expired /\ host \in ip_block)
        /\ b_out' = IF login /\ host \in blocked THEN "BlockedIPException" ELSE "passed"
        /\ UNCHANGED <<clockVars, rateVars, clusterVars, batchVars, dispatchVars, frameVars>>

BlockNext ==
    \/ \E host \in Hosts, reaches_max \in BOOLEAN : FailedLogin(host, reaches_max)
    \/ \E host \in Hosts, login \in BOOLEAN : CheckBlockedIPDispatch(host, login)
    \/ \E d \in {1, BlockTime - 1} : ClockAdvance(d)

BlockSpec == ApiStart /\ [][BlockNext]_vars

\* ================================================================ claims
\* C1: whenever an established connection is lost, start() closes the
\* transport and goes on to a new connection attempt; start() never stops.
\* Stated as: once connection_lost has run, start() has not been ended by
\* the cancellation.
C1_StartSurvivesConnectionLoss ==
    on_con_lost => mgr_pc # "cancelled"

\* While start() sleeps after a failed attempt no transport and no task
\* exists, and the sleep was armed with RetryDelay.
C2_NoTaskWhileRetrying ==
    mgr_pc = "sleep" =>
        /\ mgr_timer + slept = RetryDelay
        /\ transport = "none"
        /\ main_task = "none"
        /\ \A t \in Tasks : pc[t] = "none"

\* A failed attempt leads to a sleep of RetryDelay and nowhere else.
C2_FailedAttemptSleeps ==
    (mgr_pc = "connect" /\ peer # "up" /\ mgr_pc' # mgr_pc)
        => (mgr_pc' = "sleep" /\ mgr_timer' = RetryDelay /\ slept' = 0)

\* The sleep ends only after RetryDelay units, with a new attempt.
C2_RetryAfterFullDelay ==
    (mgr_pc = "sleep" /\ mgr_pc' # mgr_pc)
        => (mgr_pc' = "connect" /\ slept = RetryDelay)

\* C2: a connection attempt that fails (ConnectionRefusedError or another
\* OSError) does not end start() and starts no task; start() sleeps exactly
\* RetryDelay units, the same after every failure, and connects again; once
\* the peer stays reachable a connection is established.
C2_RetryAfterFailedAttempt ==
    /\ []C2_NoTaskWhileRetrying
    /\ [][C2_FailedAttemptSleeps]_vars
    /\ [][C2_RetryAfterFullDelay]_vars
    /\ (<>[](peer = "up") => <>(transport # "none"))

\* C2 witness: a third failed attempt in a row, its full delay slept.
C2_Witness ==
    failures >= 3 /\ mgr_pc = "sleep" /\ slept = RetryDelay

\* C3: when the transport is closed or lost, every outstanding send_request
\* is failed with a connection-lost error; after connection_lost no pending
\* request is left unresolved in the table.
C3_DisconnectFailsAllPending ==
    transport = "closed" => \A c \in Counters : box[c] = Free

\* C4: connected is True only if the hello request of this connection got a
\* response and that response does not start with Error.
C4_ConnectedOnlyAfterHello ==
    connected => hello_reply = "ok"

\* C4 witness: the hello was accepted and the keepalive awaits its response.
C4_Witness ==
    connected /\ pc["keepalive"] = "wait"

\* C5: when the hello response starts with Error the client closes its
\* transport, connected stays False, and start() goes on with its retry loop.
C5_RejectedHelloIsRetried ==
    (pc["hello"] = "done" /\ hello_reply = "Error") =>
        /\ transport \in {"closing", "closed"}
        /\ ~connected
        /\ mgr_pc # "cancelled"

\* C6: no application request (keepalive, test echo, file or string
\* transfer) is written before the hello handshake of the connection has
\* succeeded, whichever main task start() selected.
C6_NoRequestBeforeReady ==
    ~early_sent

\* C7: once client_echo has seen three keepalive failures in a row, the
\* transport has been closed.
C7_ThreeStrikesClose ==
    \A t \in GatherTasks :
        consec[t] >= MaxKeepaliveFailures => transport \in {"closing", "closed"}

\* C7 witness: the keepalive task closed the transport at its third failure.
C7_Witness ==
    /\ consec["keepalive"] >= MaxKeepaliveFailures
    /\ close_calls["keepalive"] = 1
    /\ transport = "closing"

\* C8 as written: the keepalive logic calls transport.close() at most once
\* per connection, also when the main task is a second echo loop, and
\* on_con_lost is resolved at most once.
C8_OneCloseCallPerConnection ==
    /\ close_calls["keepalive"] + close_calls["main"] <= 1
    /\ set_result_calls <= 1

\* C8 amended: each echo loop calls transport.close() at most once, and only
\* once its failures have reached the maximum (not at every failure); a main
\* task that is no echo loop never calls it; on_con_lost is resolved at most
\* once.  With the default main task both loops may call it.
C8_OneCloseCallPerEchoLoop ==
    /\ \A t \in GatherTasks :
          /\ close_calls[t] <= (IF IsEcho(t) THEN 1 ELSE 0)
          /\ (close_calls[t] > 0 /\ pc[t] \in LivePc)
                => n_attemps[t] >= MaxKeepaliveFailures
    /\ set_result_calls <= 1

\* C8 witness: in the default configuration both echo loops called close().
C8_Witness ==
    /\ close_calls["keepalive"] = 1
    /\ close_calls["main"] = 1
    /\ main_task = "client_echo"

\* C9: after connection_lost has run, connected is False.
C9_DisconnectedAfterLoss ==
    transport = "closed" => ~connected

C11_NoTaskOutlivesConnection ==
    transport = "closed" => \A t \in Tasks : pc[t] \notin LivePc

\* C11 witness: the connection was lost while the keepalive and the main task
\* were alive; both have been cancelled.
C11_Witness ==
    /\ transport = "closed"
    /\ pc["keepalive"] = "cancelled"
    /\ pc["main"] = "cancelled"

\* C12: the connection-lost signal is recreated for the connection that
\* follows a lost one: once it has fired, a later connection is up whose
\* signal has not fired.
C12_FreshSignalAfterReconnect ==
    on_con_lost ~> (transport = "open" /\ ~on_con_lost)

\* C13: an exception of send_request inside the keepalive or the main task
\* never ends start().
C13_StartSurvivesTaskFailure ==
    mgr_pc # "failed"

\* C14: before gather no task of the pair exists; from gather on the
\* keepalive task and one main task exist, the main task being the first
\* configured of performance_test, concurrency_test, file, string, and the
\* echo loop when none is.
C14_KeepalivePlusOneMainTask ==
    /\ main_task = "none" => (pc["keepalive"] = "none" /\ pc["main"] = "none")
    /\ main_task # "none" =>
          /\ pc["keepalive"] # "none" /\ pc["main"] # "none"
          /\ config.performance_test # 0 => main_task = "performance_test_client"
          /\ (config.performance_test = 0 /\ config.concurrency_test # 0)
                => main_task = "concurrency_test_client"
          /\ (config.performance_test = 0 /\ config.concurrency_test = 0
                /\ config.file # "") => main_task = "send_file_task"
          /\ (config.performance_test = 0 /\ config.concurrency_test = 0
                /\ config.file = "" /\ config.string # 0)
                => main_task = "send_string_task"
          /\ (config.performance_test = 0 /\ config.concurrency_test = 0
                /\ config.file = "" /\ config.string = 0)
                => main_task = "client_echo"

\* C14 witness: performance_test and file are both configured and the
\* performance test runs next to the keepalive.
C14_Witness ==
    /\ config.performance_test # 0
    /\ config.file # ""
    /\ main_task = "performance_test_client"
    /\ pc["main"] = "wait"
    /\ pc["keepalive"] \in LivePc

\* get_response call g waits for uid.
Polling(g, uid) == get_pc[g] \in {"check", "sleep"} /\ get_uid[g] = uid

\* The step in which get_response call g returns.
Returns(g) == get_pc[g] = "check" /\ get_pc'[g] = "returned"

\* C15: the response of a uid is returned by at most one get_response call,
\* whatever the interleaving of the calls and of the consumer that stores the
\* responses, and the call that returns it removes it from the store.
C15_ResponseDeliveredAtMostOnce ==
    /\ [](\A u \in UIDs : delivered[u] <= 1)
    /\ [][\A g \in Getters :
            Returns(g) => /\ responses'[get_uid[g]] = NoResponse
                          /\ get_result'[g] = responses[get_uid[g]]]_vars

\* C15 witness: two calls waited for the same uid; one has the response, the
\* other is still polling.
C15_Witness ==
    /\ get_pc["g1"] = "returned"
    /\ get_result["g1"] # NoResponse
    /\ Polling("g2", get_uid["g1"])
    /\ delivered[get_uid["g1"]] = 1

\* C16: a get_response(uid) call that runs after the response of uid has
\* been returned completes (with None) instead of waiting.
C16_SecondCallCompletes ==
    \A g \in Getters, u \in UIDs :
        (Polling(g, u) /\ delivered[u] >= 1 /\ responses[u] = NoResponse)
            ~> (get_pc[g] = "returned")

\* C17: send_event takes an id that was never assigned before, puts exactly
\* the one entry (id, event) at the end of the send-side queue, returns that
\* id and leaves the response store and every get_response call alone.
C17_SendEventFrame ==
    [][assigned' # assigned =>
          \E u \in UIDs \ assigned, e \in Events :
              /\ assigned' = assigned \cup {u}
              /\ mux_queue' = Append(mux_queue, <<u, e>>)
              /\ send_ret' = u
              /\ UNCHANGED <<responses, get_pc, get_uid, get_result, delivered>>]_vars

\* C17 witness: two events were sent, under two ids, the last one returned.
C17_Witness ==
    /\ Len(mux_queue) = 2
    /\ mux_queue[1][1] # mux_queue[2][1]
    /\ send_ret = mux_queue[2][1]
    /\ assigned = {mux_queue[1][1], mux_queue[2][1]}

C19_EchoAnsweredElseDelegated ==
    (d_kind = "request" /\ d_out # NoOutput) =>
        IF d_command = "echo-m"
        THEN d_out = [by |-> "echo_client", command |-> "ok-c", data |-> d_data]
        ELSE /\ d_out.by = "Handler.process_request"
             /\ d_out.command = d_command
             /\ d_out.data = d_data

\* C19 witness: an echo-m request with a payload of MaxLen tokens, answered.
C19_Witness ==
    /\ d_kind = "request"
    /\ d_command = "echo-m"
    /\ Len(d_data) = MaxLen
    /\ d_out # NoOutput

\* C20 as written: for a command that is no error tag the caller gets
\* exactly the payload of the response, ok-m included.
C20_ResponseIsPayload ==
    (d_kind = "response" /\ d_out # NoOutput /\ ~IsErrorTag(d_command)) =>
        d_out.value = d_data

\* C20 amended: for ok-m the caller gets the payload behind the prefix
\* "Sucessful response from master: "; every other command that is no error
\* tag is handed to the process_response of Handler.
C20_MasterResponseIsPrefixed ==
    (d_kind = "response" /\ d_out # NoOutput /\ ~IsErrorTag(d_command)) =>
        IF d_command = "ok-m"
        THEN /\ Len(d_out.value) = Len(d_data) + 1
             /\ Head(d_out.value) = "Sucessful response from master: "
             /\ Tail(d_out.value) = d_data
        ELSE d_out.value = BaseProcessResponse(d_command, d_data)

\* C20 witness: an ok-m response whose payload starts with Error, delivered.
C20_Witness ==
    /\ d_kind = "response"
    /\ d_command = "ok-m"
    /\ StartsWithError(d_data)
    /\ d_out # NoOutput

\* C21: while the connection is up every waiting caller has exactly one
\* pending request, under a counter of its own; a response wakes the caller
\* whose request carried its counter and no other task, in whatever order
\* the responses come.
C21_ResponseWakesItsCaller ==
    /\ [](transport \in {"open", "closing"} =>
            /\ \A t \in Tasks :
                  Cardinality({c \in Counters : box[c] = t})
                      = (IF pc[t] = "wait" THEN 1 ELSE 0))
    /\ [][\A c \in Counters :
            (box[c] # Free /\ box'[c] = Free /\ transport' = "open") =>
                /\ pc[box[c]] = "wait"
                /\ pc'[box[c]] \in {"ready", "throw"}
                /\ \A u \in Tasks \ {box[c]} :
                      pc'[u] = pc[u] /\ result'[u] = result[u]]_vars

\* C21 witness: the hello request was sent first and still waits, while the
\* request of the main task, sent later, has its response already.
C21_Witness ==
    /\ pc["hello"] = "wait"
    /\ pc["main"] = "ready"
    /\ result["main"] # NoResult
    /\ transport = "open"

\* C22: every request left in the pending table has a caller that waits for
\* it, so that it is resolved once: with its response or, when the connection
\* is lost, with an error.
C22_NoRequestLeftUnresolved ==
    \A c \in Counters : box[c] # Free => pc[box[c]] = "wait"

\* C25: an echo loop that has called transport.close() has seen its last
\* MaxKeepaliveFailures keepalive round trips fail.
C25_CloseOnlyAfterFailuresInARow ==
    \A t \in GatherTasks :
        (close_calls[t] > 0 /\ pc[t] \in LivePc) => consec[t] >= MaxKeepaliveFailures

\* C26: a connection whose transport is open and whose client is not
\* connected eventually becomes connected or has its transport closed.
C26_HandshakeEnds ==
    (transport = "open" /\ ~connected) ~> (connected \/ transport \in {"closing", "closed"})

\* C27: connection_lost never cancels the task that runs start().
C27_StartTaskNotCancelled ==
    ~must_cancel

\* C28: start() holds no transport while it connects or waits to connect
\* again, and once start() has ended, by an exception or by cancellation,
\* the transport of its connection is closed or about to be.
C28_TransportClosedWhenStartLeaves ==
    /\ mgr_pc \in {"connect", "sleep"} => transport = "none"
    /\ mgr_pc \in {"failed", "cancelled"} => transport \in {"closing", "closed"}
    /\ mgr_pc = "failed" => close_calls["start"] = 1

\* C28 witness: the exception of a task ended start(), whose finally closed
\* the transport that was still open.
C28_Witness ==
    /\ mgr_pc = "failed"
    /\ transport = "closing"
    /\ close_calls["start"] = 1
    /\ close_calls["keepalive"] = 0
    /\ close_calls["main"] = 0

\* The message handed to the dispatch step is the one handed to encode.
RoundTrip ==
    f_out # NoMessage =>
        f_out = [counter |-> f_counter, command |-> f_command, payload |-> f_payload]

C24_AtMostMaxPassPerWindow ==
    /\ passed["general_request_counter"] <= max_request_per_minute
    /\ passed["events_request_counter"] <= MAX_REQUESTS_EVENTS_DEFAULT

\* C29: a request that the general check refused is rejected, whatever its
\* path.
C29_GeneralLimitRejectsEveryPath ==
    (r_seen /\ r_general # 0) => r_out # 0

\* C30: for a login request, a host in ip_block is refused while less than
\* block_time has passed since its timestamp in ip_stats, and nothing
\* changes; at or after block_time the host leaves ip_stats and ip_block
\* and the request passes.  A host that is not in ip_block, or has no entry
\* in ip_stats, is never refused, and no other request is.
C30_BlockedUntilBlockTime ==
    [][b_calls' # b_calls =>
        LET host == b_host'
            timed == ip_stats[host] # 0
        IN  /\ (b_login' /\ host \in ip_block /\ timed /\ now - ip_stats[host] < BlockTime)
                  => /\ b_out' = "BlockedIPException"
                     /\ UNCHANGED <<ip_stats, ip_block>>
            /\ (b_login' /\ host \in ip_block /\ timed /\ now - ip_stats[host] >= BlockTime)
                  => /\ b_out' = "passed"
                     /\ host \notin ip_block'
                     /\ ip_stats'[host] = 0
            /\ host \notin ip_block => b_out' = "passed"
            /\ ~timed => b_out' = "passed"
            /\ ~b_login' => b_out' = "passed" /\ UNCHANGED <<ip_stats, ip_block>>]_vars

\* C30 witness: a login request found its host blocked for block_time or
\* longer, took it out of ip_block and passed.
C30_Witness ==
    /\ b_removed
    /\ b_login
    /\ b_out = "passed"
    /\ b_host \notin ip_block
    /\ ip_stats[b_host] = 0

=============================================================================
